---------------------------- MODULE Spec2Model ----------------------------
(***************************************************************************)
(* A model of the CUPS raster stream codec of src/src/filter/raster.c.     *)
(*                                                                         *)
(* One raster stream r sits on one file descriptor.  The descriptor is     *)
(* either the read end of a byte sequence `file` (with a read position and *)
(* an optional position at which read(2) fails for good) or the write end  *)
(* of a byte sequence `out` (with an optional position at which write(2)   *)
(* fails for good).  Every public function of raster.c is one action; the  *)
(* static helpers are operators that the actions apply.                    *)
(*                                                                         *)
(* Memory is modelled as bytes: the sync word and the page header are the  *)
(* byte images the code reads and writes, and a field is the value of its  *)
(* four bytes in the byte order of the host (bigEndian).  The page header  *)
(* record of raster.h is scaled down: HdrStrings bytes of strings, the     *)
(* 32-bit fields named in header_words, and HdrTail bytes of strings.      *)
(***************************************************************************)
EXTENDS Integers, Sequences, FiniteSets, TLC

VARIABLES
  bigEndian,  \* byte order of the host the library was built for
  fdmode,     \* "none", "r" (fd open for reading) or "w" (open for writing)
  file,       \* bytes a readable fd has delivered or may still deliver
  fpos,       \* read position of the fd in file
  rfail,      \* position at which read(2) has failed for good, or -1
  out,        \* bytes accepted so far by a writable fd
  wfail,      \* length of out at which write(2) has failed for good, or -1
  r,          \* the cups_raster_t record (r.alive = FALSE: no stream)
  last,       \* the last call made: its arguments and its results
  given,      \* pages handed to the writer: headers and pixel bytes
  got,        \* pages handed back by the reader: headers and pixel bytes
  failed,     \* number of calls on r in which a read(2) or write(2) failed
  broken      \* a read call on r returned 0 because a sub-read failed

vars ==
  <<bigEndian, fdmode, file, fpos, rfail, out, wfail, r, last, given, got,
    failed, broken>>

---------------------------------------------------------------------------
(* Bounds of the model.                                                    *)

\* largest len passed to cupsRasterReadPixels
MaxLen == 3
\* a fault of the fd shows at most this many bytes after the call began
MaxAhead == 1
\* most pixel bytes the writer is given, and the reader asks, for one page
MaxPageBytes == 4
\* most pages the writer is given
MaxPages == 2
\* most EINTR failures the OS injects before a read or write makes progress
MaxEintr == 1
\* calls on one stream that may fail in the underlying I/O
MaxFailed == 2
\* largest cupsHeight of a page header
MaxHeight == 2

---------------------------------------------------------------------------
(* Sequences of bytes.                                                     *)

Min(a, b) == IF a < b THEN a ELSE b
Max(a, b) == IF a > b THEN a ELSE b

Zeros(n) == [i \in 1..n |-> 0]
Fill(n, b) == [i \in 1..n |-> b]

\* bytes [off, off + n) of a buffer whose bytes beyond Len(buf) are zero
ReadAt(buf, off, n) ==
  [i \in 1..n |-> IF off + i <= Len(buf) THEN buf[off + i] ELSE 0]

\* buf with data stored at offset off (the buffer grows as far as is written)
WriteAt(buf, off, data) ==
  [i \in 1..Max(Len(buf), off + Len(data)) |->
     IF i > off /\ i <= off + Len(data) THEN data[i - off]
     ELSE IF i <= Len(buf) THEN buf[i] ELSE 0]

RECURSIVE Concat(_)
Concat(ss) == IF ss = <<>> THEN <<>> ELSE Head(ss) \o Concat(Tail(ss))

IsPrefix(s, t) == Len(s) <= Len(t) /\ SubSeq(t, 1, Len(s)) = s

---------------------------------------------------------------------------
(* raster.h: enumerations, sync words and the layout of the page header.   *)

CUPS_RASTER_READ == 0
CUPS_RASTER_WRITE == 1

\* the 32-bit sync words, most significant byte first ("RaS3", "RaSt", "RaS2")
CUPS_RASTER_SYNC == <<82, 97, 83, 51>>
CUPS_RASTER_REVSYNC == <<51, 83, 97, 82>>
CUPS_RASTER_SYNCv1 == <<82, 97, 83, 116>>
CUPS_RASTER_REVSYNCv1 == <<116, 83, 97, 82>>
CUPS_RASTER_SYNCv2 == <<82, 97, 83, 50>>
CUPS_RASTER_REVSYNCv2 == <<50, 83, 97, 82>>

CUPS_ORDER_CHUNKED == 0
CUPS_ORDER_BANDED == 1
CUPS_ORDER_PLANAR == 2

\* cups_cspace_t
CUPS_CSPACE ==
  [W |-> 0, RGB |-> 1, RGBA |-> 2, K |-> 3, CMY |-> 4, YMC |-> 5, CMYK |-> 6,
   YMCK |-> 7, KCMY |-> 8, KCMYcm |-> 9, GMCK |-> 10, GMCS |-> 11,
   WHITE |-> 12, GOLD |-> 13, SILVER |-> 14, CIEXYZ |-> 15, CIELab |-> 16,
   RGBW |-> 17, ICC1 |-> 32, ICC2 |-> 33, ICC3 |-> 34, ICC4 |-> 35,
   ICC5 |-> 36, ICC6 |-> 37, ICC7 |-> 38, ICC8 |-> 39, ICC9 |-> 40,
   ICCA |-> 41, ICCB |-> 42, ICCC |-> 43, ICCD |-> 44, ICCE |-> 45,
   ICCF |-> 46]

\* bytes of strings in front of AdvanceDistance (MediaClass .. OutputType)
HdrStrings == 1
\* the unsigned fields of cups_page_header2_t from AdvanceDistance on, in
\* order; the first V1Words of them are the fields of cups_page_header_t
header_words ==
  <<"AdvanceDistance", "cupsHeight", "cupsBitsPerColor", "cupsBitsPerPixel",
    "cupsBytesPerLine", "cupsColorOrder", "cupsColorSpace", "cupsNumColors">>
V1Words == 7
\* bytes of strings behind the last unsigned field (cupsString ..)
HdrTail == 1

sizeof_unsigned == 4
sizeof_cups_page_header_t == HdrStrings + sizeof_unsigned * V1Words
sizeof_cups_page_header2_t ==
  HdrStrings + sizeof_unsigned * Len(header_words) + HdrTail

\* offset of a field in the header record
offsetof(name) ==
  HdrStrings
    + sizeof_unsigned * ((CHOOSE i \in 1..Len(header_words) : header_words[i] = name) - 1)

---------------------------------------------------------------------------
(* unsigned values and their bytes in memory.                              *)

\* the value whose base-256 digits, most significant first, are d
UVal(d) == ((d[1] * 256 + d[2]) * 256 + d[3]) * 256 + d[4]
UDigits(v) ==
  <<(v \div 16777216) % 256, (v \div 65536) % 256, (v \div 256) % 256, v % 256>>

\* four bytes of memory <-> the digits of the unsigned they hold on this host
HostDigits(b) == IF bigEndian THEN b ELSE <<b[4], b[3], b[2], b[1]>>
HostBytes(d) == IF bigEndian THEN d ELSE <<d[4], d[3], d[2], d[1]>>

\* r->header.<name>
Field(h, name) ==
  UVal(HostDigits(SubSeq(h, offsetof(name) + 1, offsetof(name) + sizeof_unsigned)))
\* r->header.<name> = v
SetField(h, name, v) == WriteAt(h, offsetof(name), HostBytes(UDigits(v)))

\* conversion of an int to unsigned, as the halves <<high 16 bits, low 16 bits>>
ToUnsigned(x) == <<(x \div 65536) % 65536, x % 65536>>

\* i < n with i an int and n a size_t: i is converted to size_t first, and a
\* negative int becomes a value above every object size
IntLessThanSizeT(i, n) == i >= 0 /\ i < n

---------------------------------------------------------------------------
(* 4.1 byte I/O                                                            *)

\* What the OS does during one call of a public function is env: the reads
\* or writes that fail with EINTR before any other (eintr), the most bytes
\* one read or write moves (chunk), the position at which the file turns
\* out to end (eof) and the position at which read(2) or write(2) fails for
\* good (err); -1 stands for no such position.

\* read(fd, buf, want): the number of bytes delivered, 0 at end of file,
\* -1 on a permanent error
OsRead(pos, want, env) ==
  LET end == IF env.eof = -1 THEN Len(file) ELSE Min(env.eof, Len(file))
      stop == IF env.err > pos THEN Min(env.err, end) ELSE end
  IN IF pos = env.err THEN -1
     ELSE IF pos >= end THEN 0
     ELSE Min(Min(want, env.chunk), stop - pos)

\* the loop of cups_read giving up on an interrupted read(2)
RECURSIVE cups_read_loopNoRetry(_, _, _, _, _, _, _)
cups_read_loopNoRetry(pos, data, total, bytes, eintr, env, calls) ==
  IF total < bytes
  THEN IF eintr > 0
       THEN [ret |-> -1, pos |-> pos, data |-> data, calls |-> calls + 1]
       ELSE LET count == OsRead(pos, bytes - total, env) IN
            IF count = 0
            THEN [ret |-> 0, pos |-> pos, data |-> data, calls |-> calls + 1]
            ELSE IF count < 0
            THEN [ret |-> -1, pos |-> pos, data |-> data, calls |-> calls + 1]
            ELSE cups_read_loopNoRetry(pos + count,
                                       data \o SubSeq(file, pos + 1, pos + count),
                                       total + count, bytes, eintr, env, calls + 1)
  ELSE [ret |-> total, pos |-> pos, data |-> data, calls |-> calls]

\* the loop of cups_read: data are the bytes stored in buf so far, calls the
\* read(2) calls made, eintr the reads that are still to fail with EINTR
RECURSIVE cups_read_loop(_, _, _, _, _, _, _)
cups_read_loop(pos, data, total, bytes, eintr, env, calls) ==
  IF total < bytes
  THEN IF eintr > 0
       THEN \* count < 0 and errno == EINTR: count = 0
            cups_read_loop(pos, data, total + 0, bytes, eintr - 1, env, calls + 1)
       ELSE LET count == OsRead(pos, bytes - total, env) IN
            IF count = 0
            THEN [ret |-> 0, pos |-> pos, data |-> data, calls |-> calls + 1]
            ELSE IF count < 0
            THEN [ret |-> -1, pos |-> pos, data |-> data, calls |-> calls + 1]
            ELSE cups_read_loop(pos + count,
                                data \o SubSeq(file, pos + 1, pos + count),
                                total + count, bytes, eintr, env, calls + 1)
  ELSE [ret |-> total, pos |-> pos, data |-> data, calls |-> calls]

cups_read(pos, bytes, env) == cups_read_loop(pos, <<>>, 0, bytes, env.eintr, env, 0)

\* write(fd, buf, want) with o the bytes accepted so far: the number of bytes
\* accepted, or -1 on a permanent error
OsWrite(o, want, env) ==
  IF Len(o) = env.err THEN -1
  ELSE Min(Min(want, env.chunk), IF env.err > Len(o) THEN env.err - Len(o) ELSE want)

RECURSIVE cups_write_loop(_, _, _, _, _, _)
cups_write_loop(o, buf, total, eintr, env, calls) ==
  IF total < Len(buf)
  THEN IF eintr > 0
       THEN cups_write_loop(o, buf, total + 0, eintr - 1, env, calls + 1)
       ELSE LET count == OsWrite(o, Len(buf) - total, env) IN
            IF count < 0
            THEN [ret |-> -1, out |-> o, calls |-> calls + 1]
            ELSE cups_write_loop(o \o SubSeq(buf, total + 1, total + count), buf,
                                 total + count, eintr, env, calls + 1)
  ELSE [ret |-> total, out |-> o, calls |-> calls]

cups_write(o, buf, env) == cups_write_loop(o, buf, 0, env.eintr, env, 0)

\* cups_swap(buf, bytes): exchange the bytes of the first bytes / 2 pairs
cups_swap(buf, bytes) ==
  [i \in 1..Len(buf) |->
     IF i <= 2 * (bytes \div 2)
     THEN (IF i % 2 = 1 THEN buf[i + 1] ELSE buf[i - 1])
     ELSE buf[i]]

---------------------------------------------------------------------------
(* struct _cups_raster_s.  Pointers into the two owned buffers are offsets: *)
(* pcurrent is r->pcurrent - r->pixels, pixlen is r->pend - r->pixels,      *)
(* bufptr and bufend are offsets from r->buffer.  pixels holds the bytes    *)
(* of the row buffer that were stored since calloc (the others are zero),   *)
(* buffer the bytes of the read buffer that were stored since malloc.       *)
(* overrun counts the bytes stored behind the end of a row of the page (not *)
(* a field of the struct: the record of out-of-bounds stores).  decoded and *)
(* residue are not fields either: the cupsBytesPerLine bytes at ptr and the *)
(* value of bytes when the opcode loop of the last row ended.  Nor are      *)
(* handed and asked: the bytes that the calls of cups_raster_read on a      *)
(* compressed stream stored in buf when they did not fail, and the number   *)
(* of bytes those calls were asked for.  remaining holds the unsigned field *)
(* by its two's complement representative: a value k < 0 stands for the     *)
(* unsigned 2^32 + k.                                                       *)

Calloc ==
  [alive |-> FALSE, sync |-> Zeros(sizeof_unsigned), mode |-> CUPS_RASTER_READ,
   header |-> Zeros(sizeof_cups_page_header2_t),
   count |-> 0, remaining |-> 0, bpp |-> 0,
   pixels |-> <<>>, pixlen |-> 0, pcurrent |-> 0,
   compressed |-> 0, swapped |-> 0,
   buffer |-> <<>>, bufptr |-> 0, bufend |-> 0, bufsize |-> 0,
   overrun |-> 0, decoded |-> <<>>, residue |-> 0,
   handed |-> <<>>, asked |-> 0]

\* the value of r->sync
SyncOf(s) == HostDigits(s.sync)

\* 4.5: the switch on cupsColorSpace that sets cupsNumColors
SetNumColors(h) ==
  LET Switch(cs) ==
        IF cs \in {CUPS_CSPACE.W, CUPS_CSPACE.K, CUPS_CSPACE.WHITE, CUPS_CSPACE.GOLD,
                   CUPS_CSPACE.SILVER}
        THEN SetField(h, "cupsNumColors", 1)
        ELSE IF cs \in {CUPS_CSPACE.RGB, CUPS_CSPACE.CMY, CUPS_CSPACE.YMC,
                        CUPS_CSPACE.CIEXYZ, CUPS_CSPACE.CIELab, CUPS_CSPACE.ICC1,
                        CUPS_CSPACE.ICC2, CUPS_CSPACE.ICC3, CUPS_CSPACE.ICC4,
                        CUPS_CSPACE.ICC5, CUPS_CSPACE.ICC6, CUPS_CSPACE.ICC7,
                        CUPS_CSPACE.ICC8, CUPS_CSPACE.ICC9, CUPS_CSPACE.ICCA,
                        CUPS_CSPACE.ICCB, CUPS_CSPACE.ICCC, CUPS_CSPACE.ICCD,
                        CUPS_CSPACE.ICCE, CUPS_CSPACE.ICCF}
        THEN SetField(h, "cupsNumColors", 3)
        ELSE IF cs \in {CUPS_CSPACE.RGBA, CUPS_CSPACE.RGBW, CUPS_CSPACE.CMYK,
                        CUPS_CSPACE.YMCK, CUPS_CSPACE.KCMY, CUPS_CSPACE.GMCK,
                        CUPS_CSPACE.GMCS}
        THEN SetField(h, "cupsNumColors", 4)
        ELSE IF cs = CUPS_CSPACE.KCMYcm
        THEN (IF Field(h, "cupsBitsPerPixel") < 8
              THEN SetField(h, "cupsNumColors", 6)
              ELSE SetField(h, "cupsNumColors", 4))
        ELSE h
  IN Switch(Field(h, "cupsColorSpace"))

\* the number of bytes per pixel/color
BytesPerPixel(h) ==
  IF Field(h, "cupsColorOrder") = CUPS_ORDER_CHUNKED
  THEN (Field(h, "cupsBitsPerPixel") + 7) \div 8
  ELSE (Field(h, "cupsBitsPerColor") + 7) \div 8

\* a count of rows that takes every colour order for CHUNKED
RowsOfPageChunked(h) == Field(h, "cupsHeight")

\* the number of remaining rows
RowsOfPage(h) ==
  IF Field(h, "cupsColorOrder") = CUPS_ORDER_PLANAR
  THEN Field(h, "cupsHeight") * Field(h, "cupsNumColors")
  ELSE Field(h, "cupsHeight")

cups_raster_update(s) ==
  LET Derive(h) ==
        LET s1 == [s EXCEPT !.header = h, !.bpp = BytesPerPixel(h),
                            !.remaining = RowsOfPage(h)]
        IN IF s.compressed # 0
           THEN [s1 EXCEPT !.pixels = <<>>, !.pcurrent = 0,
                           !.pixlen = Field(h, "cupsBytesPerLine"), !.count = 0,
                           !.decoded = <<>>, !.residue = 0, !.overrun = 0]
           ELSE s1
  IN Derive(IF SyncOf(s) = CUPS_RASTER_SYNCv1 \/ SyncOf(s) = CUPS_RASTER_REVSYNCv1
               \/ Field(s.header, "cupsNumColors") = 0
            THEN SetNumColors(s.header)
            ELSE s.header)

\* a first test that looks at r == NULL only
WrongStreamAnyMode(s, mode) == ~s.alive

\* r == NULL || r->mode != mode: the first test of every function that takes
\* a stream
WrongStream(s, mode) == ~s.alive \/ s.mode # mode

\* a condition that swaps the pixel data of a file of the host's order too
SwapPixelsAnyOrder(s) ==
  \/ Field(s.header, "cupsBitsPerColor") = 16
  \/ Field(s.header, "cupsBitsPerPixel") = 12
  \/ Field(s.header, "cupsBitsPerPixel") = 16

\* the condition under which pixel data is byte-swapped
SwapPixels(s) ==
  /\ \/ Field(s.header, "cupsBitsPerColor") = 16
     \/ Field(s.header, "cupsBitsPerPixel") = 12
     \/ Field(s.header, "cupsBitsPerPixel") = 16
  /\ s.swapped # 0

---------------------------------------------------------------------------
(* 4.2 the buffered reader.  The operators take the stream record s and    *)
(* the read position pos of the fd and return the new ones, the value      *)
(* returned (ret), the bytes stored at buf (data) and the number of        *)
(* read(2) calls made (calls).                                             *)

\* a copy that always takes the bytes at the start of the raster buffer
cups_raster_read_copyFromStart(s, count) ==
  [s |-> [s EXCEPT !.bufptr = @ + count], moved |-> SubSeq(s.buffer, 1, count)]

\* copy count bytes from the raster buffer to buf: one byte, a hand loop for
\* up to 127 bytes, memcpy() for more; each path moves the bytes at bufptr
\* and the cursor
cups_raster_read_copy(s, count) ==
  IF count = 1
  THEN [s |-> [s EXCEPT !.bufptr = @ + 1],
        moved |-> SubSeq(s.buffer, s.bufptr + 1, s.bufptr + 1)]
  ELSE IF count < 128
  THEN [s |-> [s EXCEPT !.bufptr = @ + count],
        moved |-> [i \in 1..count |-> s.buffer[s.bufptr + i]]]
  ELSE [s |-> [s EXCEPT !.bufptr = @ + count],
        moved |-> SubSeq(s.buffer, s.bufptr + 1, s.bufptr + count)]

\* the for loop of cups_raster_read; remaining is its local
RECURSIVE cups_raster_read_loop(_, _, _, _, _, _, _, _)
cups_raster_read_loop(s, pos, data, total, remaining, bytes, env, calls) ==
  LET count == bytes - total
      \* copy bytes from the raster buffer to buf
      Copy(s1, pos1, left, calls1) ==
        LET Moved(n, cp) ==
              cups_raster_read_loop(cp.s, pos1, data \o cp.moved, total + n, left - n,
                                    bytes, env, calls1)
        IN Moved(Min(count, left), cups_raster_read_copy(s1, Min(count, left)))
      \* read into the raster buffer and then copy
      Refill(io) ==
        IF io.ret <= 0
        THEN [ret |-> 0, s |-> [s EXCEPT !.buffer = WriteAt(@, 0, io.data)],
              pos |-> io.pos, data |-> data, calls |-> calls + io.calls]
        ELSE Copy([s EXCEPT !.buffer = WriteAt(@, 0, io.data), !.bufptr = 0,
                            !.bufend = io.ret],
                  io.pos, io.ret, calls + io.calls)
      \* read directly into buf
      Direct(io) ==
        IF io.ret <= 0
        THEN [ret |-> 0, s |-> s, pos |-> io.pos, data |-> data \o io.data,
              calls |-> calls + io.calls]
        ELSE cups_raster_read_loop(s, io.pos, data \o io.data, total + io.ret,
                                   remaining, bytes, env, calls + io.calls)
  IN IF total < bytes
     THEN IF remaining = 0
          THEN IF count < 16
               THEN Refill(cups_read(pos, s.bufsize, env))
               ELSE Direct(cups_read(pos, count, env))
          ELSE Copy(s, pos, remaining, calls)
     ELSE [ret |-> total, s |-> s, pos |-> pos, data |-> data, calls |-> calls]

\* the read buffer sized to count bytes at every call
GrowBufferAlways(s, count) ==
  [s EXCEPT !.bufsize = count]

\* the read buffer grown to count bytes: realloc keeps the contents, and the
\* code keeps the offsets of bufptr and bufend
GrowBuffer(s, count) ==
  IF count > s.bufsize THEN [s EXCEPT !.bufsize = count] ELSE s

\* the history of a stream after a call of cups_raster_read that returned ret
\* with data stored in buf: the call counts if it did not fail
Handed(s, ret, bytes, data) ==
  IF ret > 0
  THEN [s EXCEPT !.handed = @ \o data, !.asked = @ + bytes]
  ELSE s

cups_raster_read(s, pos, bytes, env) ==
  LET Raw(io) ==
        [ret |-> io.ret, s |-> s, pos |-> io.pos, data |-> io.data, calls |-> io.calls]
      Buffered(s1) ==
        cups_raster_read_loop(s1, pos, <<>>, 0, s1.bufend - s1.bufptr, bytes, env, 0)
      Kept(res) == [res EXCEPT !.s = Handed(res.s, res.ret, bytes, res.data)]
  IN IF s.compressed = 0
     THEN Raw(cups_read(pos, bytes, env))
     ELSE Kept(Buffered(GrowBuffer(s, 2 * Field(s.header, "cupsBytesPerLine"))))

---------------------------------------------------------------------------
(* 4.4 the header codec.                                                   *)

\* s->v = (((((s->b[3] << 8) | s->b[2]) << 8) | s->b[1]) << 8) | s->b[0]:
\* the value has b[3] as its most significant byte, and is stored as the
\* host stores an unsigned
SwapWord(b) == HostBytes(<<b[4], b[3], b[2], b[1]>>)

\* the loop over the 81 words from AdvanceDistance on: in this record they
\* are all the unsigned fields
SwapLen == Len(header_words)

SwapHeader(h) ==
  LET first == offsetof("AdvanceDistance") IN
  [i \in 1..Len(h) |->
     IF i > first /\ i <= first + sizeof_unsigned * SwapLen
     THEN LET w == (i - first - 1) \div sizeof_unsigned
              k == (i - first - 1) % sizeof_unsigned
          IN SwapWord(SubSeq(h, first + sizeof_unsigned * w + 1,
                             first + sizeof_unsigned * w + sizeof_unsigned))[k + 1]
     ELSE h[i]]

\* returns ret, the stream, the fd position, the read(2) calls made and
\* whether a sub-read failed (io)
cups_raster_read_header(s, pos, env) ==
  LET len == IF SyncOf(s) = CUPS_RASTER_SYNCv1 \/ SyncOf(s) = CUPS_RASTER_REVSYNCv1
             THEN sizeof_cups_page_header_t
             ELSE sizeof_cups_page_header2_t
      Swapped(s1) == IF s1.swapped # 0 THEN [s1 EXCEPT !.header = SwapHeader(@)] ELSE s1
      Read(rd) ==
        IF rd.ret < len
        THEN [ret |-> 0, s |-> [rd.s EXCEPT !.header = WriteAt(@, 0, rd.data)],
              pos |-> rd.pos, calls |-> rd.calls, io |-> TRUE]
        ELSE [ret |-> 1,
              s |-> cups_raster_update(
                      Swapped([rd.s EXCEPT !.header = WriteAt(@, 0, rd.data)])),
              pos |-> rd.pos, calls |-> rd.calls, io |-> FALSE]
  IN IF WrongStream(s, CUPS_RASTER_READ)
     THEN [ret |-> 0, s |-> s, pos |-> pos, calls |-> 0, io |-> FALSE]
     ELSE Read(cups_raster_read([s EXCEPT !.header = Zeros(sizeof_cups_page_header2_t)],
                                pos, len, env))

---------------------------------------------------------------------------
(* 4.3 the decompressor: the compressed branch of cupsRasterReadPixels.    *)
(* d holds the stream, the fd position and the locals while one row is     *)
(* decoded: toP says that ptr is the caller's buffer p (at offset poff),   *)
(* otherwise ptr is r->pixels; temp is temp - ptr; bytes is bytes.         *)

\* data stored at temp; a store behind the end of the row is counted in
\* overrun and its bytes are dropped
StoreAtTemp(d, data) ==
  LET Keep(kept) ==
        IF d.toP
        THEN [d EXCEPT !.s.overrun = @ + (Len(data) - Len(kept)),
                       !.p = WriteAt(@, d.poff + d.temp, kept)]
        ELSE [d EXCEPT !.s.overrun = @ + (Len(data) - Len(kept)),
                       !.s.pixels = WriteAt(@, d.temp, kept)]
  IN Keep(SubSeq(data, 1,
                 Min(Len(data), Max(Field(d.s.header, "cupsBytesPerLine") - d.temp, 0))))

\* count bytes made of the pel: the pel itself, then memcpy(temp, temp - bpp,
\* bpp) while count > 0, each copy bpp bytes long
RepeatPel(pel, count, bpp) ==
  LET copies == (count + bpp - 1) \div bpp IN
  [i \in 1..(copies * bpp) |-> pel[((i - 1) % bpp) + 1]]

\* a literal run of 256 - byte pels
LiteralCountFrom256(byte, bpp) == (256 - byte) * bpp

\* count = (257 - byte) * r->bpp: the bytes of a literal run, before the
\* clamp to the rest of the row
LiteralCount(byte, bpp) == (257 - byte) * bpp

\* count = (byte + 1) * r->bpp: the bytes of a repeat run, before the clamp
RepeatCount(byte, bpp) == (byte + 1) * bpp

\* a test that gives up a repeat run of one pel too
TooShortForTwo(count, bpp) == count <= bpp

\* if (count < r->bpp) break: the rest of the row cannot hold one pel
TooShort(count, bpp) == count < bpp

\* the while (bytes > 0) loop over the opcodes of one row
RECURSIVE DecodeRow(_, _)
DecodeRow(d, env) ==
  LET \* copy N literal pixels
      Literal(d1, count, rl) ==
        IF rl.ret = 0
        THEN [StoreAtTemp([d1 EXCEPT !.s = rl.s, !.pos = rl.pos, !.calls = @ + rl.calls],
                          rl.data)
                EXCEPT !.ok = FALSE]
        ELSE DecodeRow([StoreAtTemp([d1 EXCEPT !.s = rl.s, !.pos = rl.pos,
                                               !.calls = @ + rl.calls], rl.data)
                          EXCEPT !.temp = @ + count, !.bytes = @ - count], env)
      \* repeat the next N bytes
      Repeat(d1, count, rp) ==
        IF rp.ret = 0
        THEN [StoreAtTemp([d1 EXCEPT !.s = rp.s, !.pos = rp.pos, !.calls = @ + rp.calls,
                                     !.bytes = @ - count], rp.data)
                EXCEPT !.ok = FALSE]
        ELSE DecodeRow([StoreAtTemp([d1 EXCEPT !.s = rp.s, !.pos = rp.pos,
                                               !.calls = @ + rp.calls,
                                               !.bytes = @ - count],
                                    RepeatPel(rp.data, count, d1.s.bpp))
                          EXCEPT !.temp = @ + Len(RepeatPel(rp.data, count, d1.s.bpp))],
                       env)
      Opcode(d1, byte) ==
        IF byte >= 128
        THEN Literal(d1, Min(LiteralCount(byte, d1.s.bpp), d1.bytes),
                     cups_raster_read(d1.s, d1.pos,
                                      Min(LiteralCount(byte, d1.s.bpp), d1.bytes), env))
        ELSE IF TooShort(Min(RepeatCount(byte, d1.s.bpp), d1.bytes), d1.s.bpp)
        THEN d1
        ELSE Repeat(d1, Min(RepeatCount(byte, d1.s.bpp), d1.bytes),
                    cups_raster_read(d1.s, d1.pos, d1.s.bpp, env))
      \* get a new repeat count
      Count(rd) ==
        IF rd.ret = 0
        THEN [d EXCEPT !.s = rd.s, !.pos = rd.pos, !.calls = @ + rd.calls, !.ok = FALSE]
        ELSE Opcode([d EXCEPT !.s = rd.s, !.pos = rd.pos, !.calls = @ + rd.calls],
                    rd.data[1])
  IN IF d.bytes > 0
     THEN Count(cups_raster_read(d.s, d.pos, 1, env))
     ELSE d

\* cups_swap(ptr, bytes) on the buffer the row was decoded into
SwapAtPtr(d, bytes) ==
  IF d.toP
  THEN [d EXCEPT !.p = WriteAt(@, d.poff,
                               cups_swap(ReadAt(@, d.poff, 2 * (bytes \div 2)), bytes))]
  ELSE [d EXCEPT !.s.pixels = WriteAt(@, 0,
                               cups_swap(ReadAt(@, 0, 2 * (bytes \div 2)), bytes))]

\* an update that forgets how much of the row a short request took
RowServedFromStart(s, full, bytes) ==
  IF full
  THEN [s EXCEPT !.pcurrent = 0, !.count = @ - 1, !.remaining = @ - 1]
  ELSE [s EXCEPT !.pcurrent = 0]

\* an update that leaves out r->remaining--
RowServedNotCounted(s, full, bytes) ==
  IF full
  THEN [s EXCEPT !.pcurrent = 0, !.count = @ - 1]
  ELSE [s EXCEPT !.pcurrent = bytes]

\* "update pointers" behind a decoded row: the stream when the caller asks
\* for a whole row or more (full), and when it asks for less
RowServed(s, full, bytes) ==
  IF full
  THEN [s EXCEPT !.pcurrent = 0, !.count = @ - 1, !.remaining = @ - 1]
  ELSE [s EXCEPT !.pcurrent = bytes]

\* the record of the row behind the opcode loop and the swap
RowAtPtr(d) ==
  [d EXCEPT !.s.residue = d.bytes,
            !.s.decoded = IF d.toP
                          THEN ReadAt(d.p, d.poff, Field(d.s.header, "cupsBytesPerLine"))
                          ELSE ReadAt(d.s.pixels, 0, Field(d.s.header, "cupsBytesPerLine"))]

\* a fragment copy after which a row that was replayed to its end stays
\* the current row
FragmentServedNotCounted(s, bytes) ==
  IF s.pcurrent + bytes >= s.pixlen
  THEN [s EXCEPT !.pcurrent = 0, !.remaining = @ - 1]
  ELSE [s EXCEPT !.pcurrent = @ + bytes]

\* r->pcurrent += bytes behind a fragment copied from the row buffer, and
\* the step to the next row when r->pcurrent >= r->pend
FragmentServed(s, bytes) ==
  IF s.pcurrent + bytes >= s.pixlen
  THEN [s EXCEPT !.pcurrent = 0, !.count = @ - 1, !.remaining = @ - 1]
  ELSE [s EXCEPT !.pcurrent = @ + bytes]

\* the while (remaining > 0 && r->remaining > 0) loop; m holds the stream,
\* the fd position, the caller's buffer p, poff = p - (its start) and the
\* local remaining
RECURSIVE ReadCompressed(_, _)
ReadCompressed(m, env) ==
  LET cupsBytesPerLine == Field(m.s.header, "cupsBytesPerLine")
      \* update pointers and copy data as needed
      Served(toP, d, bytes, s3) ==
        ReadCompressed([m EXCEPT !.s = s3, !.pos = d.pos,
                                 !.p = IF toP THEN d.p
                                       ELSE WriteAt(d.p, m.poff, ReadAt(s3.pixels, 0, bytes)),
                                 !.poff = @ + bytes, !.remaining = @ - bytes,
                                 !.calls = d.calls], env)
      Update(toP, d) ==
        IF m.remaining >= cupsBytesPerLine
        THEN Served(toP, d, cupsBytesPerLine, RowServed(d.s, TRUE, cupsBytesPerLine))
        ELSE Served(toP, d, m.remaining, RowServed(d.s, FALSE, m.remaining))
      \* swap bytes as needed
      Decoded(toP, d) ==
        IF ~d.ok
        THEN [m EXCEPT !.s = d.s, !.pos = d.pos, !.p = d.p, !.calls = d.calls,
                       !.ok = FALSE]
        ELSE Update(toP, RowAtPtr(IF SwapPixels(d.s) THEN SwapAtPtr(d, d.bytes) ELSE d))
      Start(rd, s1, toP) ==
        Decoded(toP, DecodeRow([s |-> s1, pos |-> rd.pos, calls |-> m.calls + rd.calls,
                                toP |-> toP, p |-> m.p, poff |-> m.poff, temp |-> 0,
                                bytes |-> cupsBytesPerLine, ok |-> TRUE], env))
      \* need to read a new row
      NewRow(rd) ==
        IF rd.ret = 0
        THEN [m EXCEPT !.s = rd.s, !.pos = rd.pos, !.calls = @ + rd.calls, !.ok = FALSE]
        ELSE Start(rd, [rd.s EXCEPT !.count = rd.data[1] + 1],
                   m.remaining = cupsBytesPerLine /\ ~(rd.data[1] + 1 > 1))
      \* copy fragment from buffer
      Fragment(bytes) ==
        ReadCompressed(
          [m EXCEPT !.s = FragmentServed(m.s, bytes),
                    !.p = WriteAt(@, m.poff, ReadAt(m.s.pixels, m.s.pcurrent, bytes)),
                    !.poff = @ + bytes, !.remaining = @ - bytes], env)
  IN IF m.remaining > 0 /\ m.s.remaining # 0
     THEN IF m.s.count = 0
          THEN NewRow(cups_raster_read(m.s, m.pos, 1, env))
          ELSE Fragment(Min(m.s.pixlen - m.s.pcurrent, m.remaining))
     ELSE m

---------------------------------------------------------------------------
(* 4.6 the public functions, as functions of the stream and the fd.  Each  *)
(* returns ret (the value returned, before its conversion to unsigned),    *)
(* the stream s, the fd state, calls (the read(2)/write(2) calls made) and *)
(* io (a sub-read or sub-write failed).                                    *)

\* tests that take REVSYNCv2 for an uncompressed file
SyncFlagsV2Only(r1, sync) ==
  [r1 EXCEPT
     !.compressed = IF sync = CUPS_RASTER_SYNCv2 THEN 1 ELSE @,
     !.swapped = IF sync = CUPS_RASTER_REVSYNC \/ sync = CUPS_RASTER_REVSYNCv1
                    \/ sync = CUPS_RASTER_REVSYNCv2
                 THEN 1 ELSE @]

\* the two tests of cupsRasterOpen on the sync word that was read, which
\* set r->compressed and r->swapped
SyncFlags(r1, sync) ==
  [r1 EXCEPT
     !.compressed = IF sync = CUPS_RASTER_SYNCv2 \/ sync = CUPS_RASTER_REVSYNCv2
                    THEN 1 ELSE @,
     !.swapped = IF sync = CUPS_RASTER_REVSYNC \/ sync = CUPS_RASTER_REVSYNCv1
                    \/ sync = CUPS_RASTER_REVSYNCv2
                 THEN 1 ELSE @]

\* cupsRasterOpen(fd, mode): the stream returned, or the freed record
cupsRasterOpen_(mode, pos, o, env) ==
  LET r0 == [Calloc EXCEPT !.alive = TRUE, !.mode = mode]
      Sync(r1, sync) ==
        IF sync # CUPS_RASTER_SYNC /\ sync # CUPS_RASTER_REVSYNC
           /\ sync # CUPS_RASTER_SYNCv1 /\ sync # CUPS_RASTER_REVSYNCv1
           /\ sync # CUPS_RASTER_SYNCv2 /\ sync # CUPS_RASTER_REVSYNCv2
        THEN Calloc
        ELSE SyncFlags(r1, sync)
      \* open for read - get sync word
      Read(io) ==
        [s |-> IF io.ret = 0 THEN Calloc
               ELSE Sync([r0 EXCEPT !.sync = WriteAt(@, 0, io.data)],
                         HostDigits(WriteAt(r0.sync, 0, io.data))),
         pos |-> io.pos, out |-> o, calls |-> io.calls, io |-> io.ret <= 0,
         data |-> io.data]
      \* open for write - put sync word
      Wrote(r1, io) ==
        [s |-> IF IntLessThanSizeT(io.ret, sizeof_unsigned) THEN Calloc ELSE r1,
         pos |-> pos, out |-> io.out, calls |-> io.calls, io |-> io.ret < 0,
         data |-> r1.sync]
  IN IF mode = CUPS_RASTER_READ
     THEN Read(cups_read(pos, sizeof_unsigned, env))
     ELSE Wrote([r0 EXCEPT !.sync = HostBytes(CUPS_RASTER_SYNC)],
                cups_write(o, HostBytes(CUPS_RASTER_SYNC), env))

\* cupsRasterReadPixels(r, p, len) with p the caller's buffer of len bytes;
\* n is the number of bytes stored in p
cupsRasterReadPixels_(s, pos, p, env) ==
  LET len == Len(p)
      \* read without compression
      Raw(s1, io) ==
        IF io.ret = 0
        THEN [ret |-> 0, s |-> s1, pos |-> io.pos, p |-> WriteAt(p, 0, io.data),
              n |-> Len(io.data), calls |-> io.calls, io |-> len > 0]
        ELSE [ret |-> len, s |-> s1, pos |-> io.pos,
              p |-> IF SwapPixels(s1) THEN cups_swap(WriteAt(p, 0, io.data), len)
                    ELSE WriteAt(p, 0, io.data),
              n |-> Len(io.data), calls |-> io.calls, io |-> io.ret < 0]
      \* read compressed data
      Decompressed(m) ==
        [ret |-> IF m.ok THEN len ELSE 0, s |-> m.s, pos |-> m.pos, p |-> m.p,
         n |-> m.poff, calls |-> m.calls, io |-> ~m.ok]
  IN IF WrongStream(s, CUPS_RASTER_READ) \/ s.remaining = 0
     THEN [ret |-> 0, s |-> s, pos |-> pos, p |-> p, n |-> 0, calls |-> 0, io |-> FALSE]
     ELSE IF s.compressed = 0
     THEN Raw([s EXCEPT !.remaining = @ - (len \div Field(s.header, "cupsBytesPerLine"))],
              cups_read(pos, len, env))
     ELSE Decompressed(ReadCompressed([s |-> s, pos |-> pos, p |-> p, poff |-> 0,
                                       remaining |-> len, calls |-> 0, ok |-> TRUE], env))

\* the tail of both header writers: write the raster header
WriteRasterHeader(s1, o, env) ==
  LET Wrote(io) ==
        [ret |-> IF io.ret > 0 THEN 1 ELSE 0, s |-> s1, out |-> io.out,
         calls |-> io.calls, io |-> io.ret < 0]
  IN Wrote(cups_write(o, s1.header, env))

\* cupsRasterWriteHeader(r, h) and cupsRasterWriteHeader2(r, h): h is the byte
\* image of the caller's header, sizeof(cups_page_header_t) or
\* sizeof(cups_page_header2_t) bytes long
cupsRasterWriteHeader_(s, o, h, env) ==
  IF WrongStream(s, CUPS_RASTER_WRITE)
  THEN [ret |-> 0, s |-> s, out |-> o, calls |-> 0, io |-> FALSE]
  ELSE WriteRasterHeader(
         cups_raster_update(
           [s EXCEPT !.header = WriteAt(Zeros(sizeof_cups_page_header2_t), 0,
                                        SubSeq(h, 1, sizeof_cups_page_header_t))]),
         o, env)

cupsRasterWriteHeader2_(s, o, h, env) ==
  IF WrongStream(s, CUPS_RASTER_WRITE)
  THEN [ret |-> 0, s |-> s, out |-> o, calls |-> 0, io |-> FALSE]
  ELSE WriteRasterHeader(
         cups_raster_update([s EXCEPT !.header = SubSeq(h, 1, sizeof_cups_page_header2_t)]),
         o, env)

\* cupsRasterWritePixels(r, p, len) with p the len bytes to write
cupsRasterWritePixels_(s, o, p, env) ==
  LET Wrote(s1, io) ==
        [ret |-> io.ret, s |-> s1, out |-> io.out, calls |-> io.calls, io |-> io.ret < 0]
  IN IF WrongStream(s, CUPS_RASTER_WRITE) \/ s.remaining = 0
     THEN [ret |-> 0, s |-> s, out |-> o, calls |-> 0, io |-> FALSE]
     ELSE Wrote([s EXCEPT !.remaining = @ - (Len(p) \div Field(s.header, "cupsBytesPerLine"))],
                cups_write(o, p, env))

---------------------------------------------------------------------------
(* The inputs: what the OS does, page headers, and raster files.           *)

\* the OS moves every byte at once, or one byte at a time after MaxEintr
\* interrupted calls
Envs == {[eintr |-> 0, chunk |-> 64], [eintr |-> MaxEintr, chunk |-> 1]}

QuietRead ==
  {[eintr |-> e.eintr, chunk |-> e.chunk, eof |-> -1, err |-> rfail] : e \in Envs}
FaultyRead ==
  {[eintr |-> 0, chunk |-> 64, eof |-> fpos + k, err |-> -1] : k \in 0..MaxAhead}
    \cup {[eintr |-> 0, chunk |-> 64, eof |-> -1, err |-> fpos + k] : k \in 0..MaxAhead}

QuietWrite == {[eintr |-> e.eintr, chunk |-> e.chunk, err |-> wfail] : e \in Envs}
FaultyWrite ==
  {[eintr |-> 0, chunk |-> 64, err |-> Len(out) + k] : k \in 0..MaxAhead}

\* the fd as the call leaves it: the fault of env is there for good once a
\* read(2) or write(2) met it
ReadFailAfter(env, res) == IF res.io /\ res.pos = env.err THEN env.err ELSE rfail
FileAfter(env, res) ==
  IF res.io /\ env.eof # -1 /\ res.pos = env.eof /\ env.eof < Len(file)
  THEN SubSeq(file, 1, env.eof)
  ELSE file
WriteFailAfter(env, res) == IF res.io /\ Len(res.out) = env.err THEN env.err ELSE wfail

\* the values of the unsigned fields of a page header
Hdr(height, bpc, bpx, bpl, order, cs, ncol) ==
  [AdvanceDistance |-> 258, cupsHeight |-> height, cupsBitsPerColor |-> bpc,
   cupsBitsPerPixel |-> bpx, cupsBytesPerLine |-> bpl, cupsColorOrder |-> order,
   cupsColorSpace |-> cs, cupsNumColors |-> ncol]

Reverse4(d) == <<d[4], d[3], d[2], d[1]>>

\* the cups_page_header2_t with the field values f in the memory of a host
\* that is big-endian (big) or little-endian
HeaderImage(f, big) ==
  <<77>>
    \o Concat([i \in 1..Len(header_words) |->
                 IF big THEN UDigits(f[header_words[i]])
                 ELSE Reverse4(UDigits(f[header_words[i]]))])
    \o <<88>>

\* the color-space tags of the mapping of cups_raster_update, and one that
\* is not a tag
CSpaceTags == {CUPS_CSPACE[k] : k \in DOMAIN CUPS_CSPACE}
NoCSpace == CUPS_CSPACE.RGBW + 3
Orders == {CUPS_ORDER_CHUNKED, CUPS_ORDER_BANDED, CUPS_ORDER_PLANAR}

\* headers of the pages of a session of several pages
LaterHeaders ==
  {Hdr(1, 8, 8, 2, CUPS_ORDER_CHUNKED, CUPS_CSPACE.W, 1),
   Hdr(1, 8, 8, 1, CUPS_ORDER_PLANAR, CUPS_CSPACE.RGB, 0)}

\* headers handed to the writer: every color order with every color-space
\* tag, and pages of other shapes
WriterHeaders ==
  {Hdr(1, 8, 8, 1, order, cs, 0) : order \in Orders, cs \in CSpaceTags \cup {NoCSpace}}
    \cup {Hdr(1, 1, 4, 1, order, CUPS_CSPACE.KCMYcm, 0) : order \in Orders}
    \cup {Hdr(height, 8, 8, 2, CUPS_ORDER_CHUNKED, CUPS_CSPACE.K, ncol) :
            height \in 0..MaxHeight, ncol \in {0, 2}}
    \cup {Hdr(1, 16, 16, 2, CUPS_ORDER_BANDED, CUPS_CSPACE.RGB, 3),
          Hdr(1, 8, 12, 2, CUPS_ORDER_CHUNKED, NoCSpace, 0)}
    \cup LaterHeaders

\* pixel byte number i of a page
Pixel(i) == 100 + i
\* the caller's buffer of len bytes before a read
Buffer(len) == Fill(len, 238)

\* the rows of the page of an uncompressed file
PageRows(f) ==
  LET rows == IF f.cupsColorOrder = CUPS_ORDER_PLANAR
              THEN f.cupsHeight * (IF f.cupsNumColors = 0 THEN 3 ELSE f.cupsNumColors)
              ELSE f.cupsHeight
  IN [i \in 1..(rows * f.cupsBytesPerLine) |-> Pixel(i)]

\* a raster file written on a host of byte order big: the sync word, then
\* for every page its header (a cups_page_header_t behind SYNCv1) and its
\* pixel data
PageOf(sync, big, pg) ==
  (IF sync = CUPS_RASTER_SYNCv1
   THEN SubSeq(HeaderImage(pg.hdr, big), 1, sizeof_cups_page_header_t)
   ELSE HeaderImage(pg.hdr, big))
    \o pg.data
FileOf(sync, big, pages) ==
  (IF big THEN sync ELSE Reverse4(sync))
    \o Concat([i \in 1..Len(pages) |-> PageOf(sync, big, pages[i])])

\* pages of uncompressed input files
UPage(f) == [hdr |-> f, data |-> PageRows(f)]
UPage1 == UPage(Hdr(2, 8, 8, 2, CUPS_ORDER_CHUNKED, CUPS_CSPACE.W, 1))
UPage2 == UPage(Hdr(1, 16, 16, 2, CUPS_ORDER_CHUNKED, CUPS_CSPACE.K, 1))
UPage3 == UPage(Hdr(1, 8, 8, 1, CUPS_ORDER_PLANAR, CUPS_CSPACE.RGB, 0))

\* pages of compressed input files: a header and the compressed rows,
\* padded to whole read buffers
CPage1 ==
  [hdr |-> Hdr(2, 8, 8, 2, CUPS_ORDER_CHUNKED, CUPS_CSPACE.W, 1),
   data |-> <<1, 1, 70, 0>>]
CPage2 ==
  [hdr |-> Hdr(2, 8, 8, 2, CUPS_ORDER_CHUNKED, CUPS_CSPACE.W, 1),
   data |-> <<0, 255, 1, 2, 0, 0, 3, 0, 4, 0, 0, 0>>]
CPage3 ==
  [hdr |-> Hdr(1, 8, 16, 2, CUPS_ORDER_CHUNKED, CUPS_CSPACE.W, 1),
   data |-> <<0, 0, 10, 11>>]
CPage4 ==
  [hdr |-> Hdr(3, 8, 8, 1, CUPS_ORDER_CHUNKED, CUPS_CSPACE.W, 1),
   data |-> <<2, 0, 9, 0>>]

\* pages of two-byte pels in rows of three bytes
CPage5 ==
  [hdr |-> Hdr(2, 8, 16, 3, CUPS_ORDER_CHUNKED, CUPS_CSPACE.W, 1),
   data |-> <<0, 254, 20, 21, 24, 0, 0, 22, 23, 0, 0, 0>>]
CPage6 ==
  [hdr |-> Hdr(1, 8, 16, 3, CUPS_ORDER_CHUNKED, CUPS_CSPACE.W, 1),
   data |-> <<0, 0, 20, 21, 0, 0>>]
CPage7 ==
  [hdr |-> Hdr(1, 8, 16, 3, CUPS_ORDER_CHUNKED, CUPS_CSPACE.W, 1),
   data |-> <<0, 1, 30, 31, 0, 0>>]

\* a page of one-byte rows followed by a page of two-byte rows, for which the
\* read buffer has to grow, and after which the file ends
CPage8 ==
  [hdr |-> Hdr(1, 8, 8, 1, CUPS_ORDER_CHUNKED, CUPS_CSPACE.W, 1),
   data |-> <<0, 0, 5>>]
CPage9 ==
  [hdr |-> Hdr(1, 8, 8, 2, CUPS_ORDER_CHUNKED, CUPS_CSPACE.W, 1),
   data |-> <<0, 1, 7>>]

\* files on which read(2) may fail
FaultFiles ==
  {FileOf(CUPS_RASTER_SYNC, bigEndian, <<UPage1>>),
   FileOf(CUPS_RASTER_SYNCv2, bigEndian, <<CPage2>>)}

InputFiles ==
  FaultFiles
    \cup {FileOf(sync, big, <<UPage1>>) :
            sync \in {CUPS_RASTER_SYNC, CUPS_RASTER_SYNCv1}, big \in BOOLEAN}
    \cup {FileOf(CUPS_RASTER_SYNC, big, <<UPage2>>) : big \in BOOLEAN}
    \cup {FileOf(CUPS_RASTER_SYNCv1, big, <<UPage3>>) : big \in BOOLEAN}
    \cup {FileOf(CUPS_RASTER_SYNC, bigEndian,
                 [i \in 1..MaxPages |->
                    [hdr |-> Hdr(1, 8, 8, 2, CUPS_ORDER_CHUNKED, CUPS_CSPACE.W, 1),
                     data |-> <<Pixel(i), Pixel(i + 1)>>]])}
    \cup {FileOf(CUPS_RASTER_SYNCv2, big, <<CPage1>>) : big \in BOOLEAN}
    \cup {FileOf(CUPS_RASTER_SYNCv2, ~bigEndian, <<pg>>) : pg \in {CPage2, CPage3}}
    \cup {FileOf(CUPS_RASTER_SYNCv2, bigEndian, <<pg>>) :
            pg \in {CPage4, CPage5, CPage6, CPage7}}
    \cup {FileOf(CUPS_RASTER_SYNCv2, bigEndian,
                 <<[hdr |-> Hdr(1, 8, 8, 2, CUPS_ORDER_CHUNKED, CUPS_CSPACE.W, 1),
                    data |-> <<0, 0, 5, 0, 6>>],
                   [hdr |-> Hdr(1, 8, 8, 2, CUPS_ORDER_CHUNKED, CUPS_CSPACE.W, 1),
                    data |-> <<0, 1, 7, 0>>]>>)}
    \cup {FileOf(CUPS_RASTER_SYNCv2, bigEndian, <<CPage8, CPage9>>)}
    \cup {<<82, 97, 83, 52, 0, 0, 0, 0>>, <<82, 97, 83, 0>>, <<82, 97, 83>>, <<>>}

---------------------------------------------------------------------------
(* The state machine: an fd is attached, a stream is opened on it, called  *)
(* and closed.                                                             *)

NoCall ==
  [op |-> "none", ret |-> <<0, 0>>, len |-> 0, n |-> 0, p |-> <<>>, io |-> FALSE,
   touched |-> FALSE]

Init ==
  /\ bigEndian \in BOOLEAN
  /\ fdmode = "none"
  /\ file = <<>> /\ fpos = 0 /\ rfail = -1
  /\ out = <<>> /\ wfail = -1
  /\ r = Calloc
  /\ last = NoCall
  /\ given = <<>> /\ got = <<>>
  /\ failed = 0 /\ broken = FALSE

\* open(2) of a raster file for reading
AttachInput ==
  /\ fdmode = "none" /\ given = <<>>
  /\ \E f \in InputFiles : file' = f
  /\ fdmode' = "r"
  /\ UNCHANGED <<bigEndian, fpos, rfail, out, wfail, r, last, given, got, failed, broken>>

\* open(2) of an empty file for writing
AttachOutput ==
  /\ fdmode = "none" /\ given = <<>>
  /\ fdmode' = "w"
  /\ UNCHANGED <<bigEndian, file, fpos, rfail, out, wfail, r, last, given, got, failed,
                 broken>>

\* open(2), for reading, of the file that was written
AttachWritten ==
  /\ fdmode = "none" /\ given # <<>>
  /\ file' = out
  /\ fdmode' = "r"
  /\ UNCHANGED <<bigEndian, fpos, rfail, out, wfail, r, last, given, got, failed, broken>>

\* what the OS may do during a call that reads: a fault strikes once, and
\* only a file of FaultFiles
ReadEnvs ==
  IF fdmode = "r" /\ given = <<>> /\ failed = 0 /\ file \in FaultFiles
  THEN QuietRead \cup FaultyRead
  ELSE QuietRead

\* the session is one on which misuse, write faults and requests of any
\* length are explored: no page was written yet, or the first page has a
\* header of LaterHeaders; any other session moves pixels row by row
Plain ==
  IF given = <<>> THEN TRUE
  ELSE \E f \in LaterHeaders :
         IsPrefix(SubSeq(HeaderImage(f, bigEndian), 1, sizeof_cups_page_header_t),
                  given[1].hdr)

WriteEnvs ==
  IF fdmode = "w" /\ failed = 0 /\ Plain /\ Len(given) <= 1
  THEN QuietWrite \cup FaultyWrite
  ELSE QuietWrite

cupsRasterOpen ==
  /\ fdmode # "none" /\ ~r.alive /\ last.op = "none"
  /\ \E env \in (IF fdmode = "r" THEN ReadEnvs ELSE WriteEnvs) :
       LET Returned(res) ==
             /\ r' = res.s
             /\ fpos' = res.pos
             /\ out' = res.out
             /\ IF fdmode = "r"
                THEN /\ rfail' = ReadFailAfter(env, res)
                     /\ file' = FileAfter(env, res)
                     /\ wfail' = wfail
                ELSE /\ wfail' = WriteFailAfter(env, res)
                     /\ UNCHANGED <<rfail, file>>
             /\ last' = [op |-> "Open",
                         ret |-> IF res.s.alive THEN <<0, 1>> ELSE <<0, 0>>,
                         len |-> sizeof_unsigned, n |-> Len(res.data), p |-> res.data,
                         io |-> res.io, touched |-> res.calls > 0]
             /\ failed' = failed + (IF res.io THEN 1 ELSE 0)
       IN Returned(cupsRasterOpen_(IF fdmode = "r" THEN CUPS_RASTER_READ
                                   ELSE CUPS_RASTER_WRITE, fpos, out, env))
  /\ UNCHANGED <<bigEndian, fdmode, given, got, broken>>

\* cupsRasterClose(r) and close(2) of the fd; a file of whole pages that was
\* written with no write error stays to be read back
cupsRasterClose ==
  /\ fdmode # "none" /\ last.op # "none"
  /\ r' = Calloc
  /\ fdmode' = "none"
  /\ last' = NoCall
  /\ file' = <<>> /\ fpos' = 0 /\ rfail' = -1 /\ wfail' = -1
  /\ got' = <<>> /\ failed' = 0 /\ broken' = FALSE
  /\ IF fdmode = "w" /\ failed = 0 /\ given # <<>> /\ r.remaining = 0
     THEN UNCHANGED <<out, given>>
     ELSE out' = <<>> /\ given' = <<>>
  /\ UNCHANGED bigEndian

\* a session ends after MaxFailed calls that failed in the I/O, one that
\* reads a written file back after the first
CanCall ==
  r.alive /\ failed < (IF fdmode = "r" /\ given # <<>> THEN 1 ELSE MaxFailed)

\* the misuse case of a call: the stream is in the other mode
WrongMode(mode) == r.mode # mode
\* misuse is explored where Plain holds and the file is not one read back
Explored(mode) ==
  IF WrongMode(mode)
  THEN (IF fdmode = "w" THEN Plain /\ Len(given) <= 1 ELSE given = <<>>)
  ELSE TRUE

\* the header bytes a header read at pos would leave in r->header
HeaderAhead(pos, env) ==
  LET len == IF SyncOf(r) = CUPS_RASTER_SYNCv1 \/ SyncOf(r) = CUPS_RASTER_REVSYNCv1
             THEN sizeof_cups_page_header_t
             ELSE sizeof_cups_page_header2_t
      Ahead(rd) ==
        [ok |-> rd.ret = len,
         h |-> IF rd.ret = len /\ r.swapped # 0
               THEN SwapHeader(WriteAt(Zeros(sizeof_cups_page_header2_t), 0, rd.data))
               ELSE WriteAt(Zeros(sizeof_cups_page_header2_t), 0, rd.data)]
  IN Ahead(cups_raster_read([r EXCEPT !.header = Zeros(sizeof_cups_page_header2_t)],
                            pos, len, env))

\* every unsigned field of h is below 256^digits
FieldsBelow(h, digits) ==
  \A i \in 1..Len(header_words) :
    LET d == HostDigits(SubSeq(h, offsetof(header_words[i]) + 1,
                               offsetof(header_words[i]) + sizeof_unsigned))
    IN \A k \in 1..(sizeof_unsigned - digits) : d[k] = 0

\* every unsigned field of h is below 2^30
FieldsFit(h) ==
  \A i \in 1..Len(header_words) :
    HostDigits(SubSeq(h, offsetof(header_words[i]) + 1,
                      offsetof(header_words[i]) + sizeof_unsigned))[1] < 64

\* the header read leaves fields the model can hold: below 2^16 in a header
\* that was read, below 2^24 in the part of one that was not; a header of
\* an uncompressed page, for which no row buffer is allocated, may as well
\* have fields below 2^30 if its rows are not counted by a product
Legible(pos, env) ==
  LET Fits(a) ==
        IF FieldsBelow(a.h, IF a.ok THEN 2 ELSE 3) THEN TRUE
        ELSE IF a.ok /\ r.compressed = 0 /\ FieldsFit(a.h)
        THEN Field(a.h, "cupsColorOrder") # CUPS_ORDER_PLANAR
        ELSE FALSE
  IN
  IF WrongMode(CUPS_RASTER_READ) THEN TRUE ELSE Fits(HeaderAhead(pos, env))

ReadHeaderCall(v, op) ==
  /\ CanCall /\ Explored(CUPS_RASTER_READ)
  /\ Len(got) < MaxPages
  /\ \E env \in (IF WrongMode(CUPS_RASTER_READ) THEN {CHOOSE e \in QuietRead : TRUE}
                 ELSE ReadEnvs) :
       LET size == IF v = 1 THEN sizeof_cups_page_header_t ELSE sizeof_cups_page_header2_t
           \* memcpy(h, &(r->header), sizeof(*h)) if the header was read
           Returned(res) ==
             /\ r' = res.s
             /\ fpos' = res.pos
             /\ rfail' = ReadFailAfter(env, res)
             /\ file' = FileAfter(env, res)
             /\ last' = [op |-> op, ret |-> ToUnsigned(IF res.ret = 0 THEN 0 ELSE 1),
                         len |-> size, n |-> IF res.ret = 0 THEN 0 ELSE size,
                         p |-> IF res.ret = 0 THEN <<>> ELSE SubSeq(res.s.header, 1, size),
                         io |-> res.io, touched |-> res.calls > 0]
             /\ got' = IF res.ret = 0 THEN got
                       ELSE Append(got, [v |-> v, hdr |-> SubSeq(res.s.header, 1, size),
                                         data |-> <<>>])
             /\ failed' = failed + (IF res.io THEN 1 ELSE 0)
             /\ broken' = (broken \/ res.io)
       IN /\ Legible(fpos, env)
          /\ Returned(cups_raster_read_header(r, fpos, env))
  /\ UNCHANGED <<bigEndian, fdmode, out, wfail, given>>

cupsRasterReadHeader == ReadHeaderCall(1, "ReadHeader")
cupsRasterReadHeader2 == ReadHeaderCall(2, "ReadHeader2")

\* the caller asks for any number of bytes on the first page of a Plain
\* session, and for one row at a time on every other page
FreeLengths(pages) == Plain /\ Len(pages) <= 1

\* len / r->header.cupsBytesPerLine is defined
Divides(s, mode) ==
  IF s.mode = mode /\ s.remaining # 0 /\ (mode = CUPS_RASTER_WRITE \/ s.compressed = 0)
  THEN Field(s.header, "cupsBytesPerLine") # 0
  ELSE TRUE

\* the pixel bytes of the page that were handed to the reader so far
Read == IF got = <<>> THEN 0 ELSE Len(got[Len(got)].data)

cupsRasterReadPixels ==
  /\ CanCall /\ Explored(CUPS_RASTER_READ)
  /\ Divides(r, CUPS_RASTER_READ)
  /\ \E len \in (IF WrongMode(CUPS_RASTER_READ) THEN {MaxLen}
                 ELSE IF FreeLengths(got) THEN 0..Min(MaxLen, MaxPageBytes - Read)
                 ELSE {Field(r.header, "cupsBytesPerLine")}
                        \cap 0..(MaxPageBytes - Read)),
        env \in (IF WrongMode(CUPS_RASTER_READ) THEN {CHOOSE e \in QuietRead : TRUE}
                 ELSE ReadEnvs) :
       LET Returned(res) ==
             /\ r' = res.s
             /\ fpos' = res.pos
             /\ rfail' = ReadFailAfter(env, res)
             /\ file' = FileAfter(env, res)
             /\ last' = [op |-> "ReadPixels", ret |-> ToUnsigned(res.ret), len |-> len,
                         n |-> res.n, p |-> res.p, io |-> res.io,
                         touched |-> res.calls > 0]
             /\ got' = IF res.ret = 0 \/ got = <<>> THEN got
                       ELSE [got EXCEPT ![Len(got)].data = @ \o SubSeq(res.p, 1, res.n)]
             /\ failed' = failed + (IF res.io THEN 1 ELSE 0)
             /\ broken' = (broken \/ (res.io /\ res.ret = 0))
       IN Returned(cupsRasterReadPixels_(r, fpos, Buffer(len), env))
  /\ UNCHANGED <<bigEndian, fdmode, out, wfail, given>>

\* the headers a caller passes: any of WriterHeaders for the first page of
\* a file, LaterHeaders in a misuse and, once the page before is complete,
\* in a file of several pages
HeadersToWrite ==
  IF WrongMode(CUPS_RASTER_WRITE) THEN {CHOOSE f \in LaterHeaders : TRUE}
  ELSE IF given = <<>> /\ failed = 0 THEN WriterHeaders
  ELSE IF Plain /\ r.remaining = 0 THEN LaterHeaders
  ELSE {}

WriteHeaderCall(v, op) ==
  /\ CanCall /\ Explored(CUPS_RASTER_WRITE)
  /\ Len(given) < MaxPages
  /\ \E f \in HeadersToWrite :
     \E env \in (IF WrongMode(CUPS_RASTER_WRITE) THEN {CHOOSE e \in QuietWrite : TRUE}
                 ELSE IF f \in LaterHeaders THEN WriteEnvs
                 ELSE QuietWrite) :
       LET size == IF v = 1 THEN sizeof_cups_page_header_t ELSE sizeof_cups_page_header2_t
           Returned(h, res) ==
             /\ r' = res.s
             /\ out' = res.out
             /\ wfail' = WriteFailAfter(env, res)
             /\ last' = [op |-> op, ret |-> ToUnsigned(res.ret), len |-> size, n |-> 0,
                         p |-> h, io |-> res.io, touched |-> res.calls > 0]
             /\ given' = IF WrongMode(CUPS_RASTER_WRITE) THEN given
                         ELSE Append(given, [v |-> v, hdr |-> h, data |-> <<>>])
             /\ failed' = failed + (IF res.io THEN 1 ELSE 0)
           Call(h) ==
             Returned(h, IF v = 1 THEN cupsRasterWriteHeader_(r, out, h, env)
                         ELSE cupsRasterWriteHeader2_(r, out, h, env))
       IN Call(SubSeq(HeaderImage(f, bigEndian), 1, size))
  /\ UNCHANGED <<bigEndian, fdmode, file, fpos, rfail, got, broken>>

cupsRasterWriteHeader == WriteHeaderCall(1, "WriteHeader")
cupsRasterWriteHeader2 == WriteHeaderCall(2, "WriteHeader2")

\* the pixel bytes of the page that were handed to the writer so far
Written == IF given = <<>> THEN 0 ELSE Len(given[Len(given)].data)

cupsRasterWritePixels ==
  /\ CanCall /\ Explored(CUPS_RASTER_WRITE)
  /\ Divides(r, CUPS_RASTER_WRITE)
  /\ \E len \in (IF WrongMode(CUPS_RASTER_WRITE) THEN {1}
                 ELSE IF FreeLengths(given) THEN 0..(MaxPageBytes - Written)
                 ELSE {Field(r.header, "cupsBytesPerLine")}
                        \cap 0..(MaxPageBytes - Written)),
        env \in (IF WrongMode(CUPS_RASTER_WRITE) THEN {CHOOSE e \in QuietWrite : TRUE}
                 ELSE WriteEnvs) :
       LET Returned(p, res) ==
             /\ r' = res.s
             /\ out' = res.out
             /\ wfail' = WriteFailAfter(env, res)
             /\ last' = [op |-> "WritePixels", ret |-> ToUnsigned(res.ret), len |-> len,
                         n |-> Len(res.out) - Len(out), p |-> p, io |-> res.io,
                         touched |-> res.calls > 0]
             /\ given' = IF given = <<>> \/ res.ret # len THEN given
                         ELSE [given EXCEPT ![Len(given)].data = @ \o p]
             /\ failed' = failed + (IF res.io THEN 1 ELSE 0)
           Call(p) == Returned(p, cupsRasterWritePixels_(r, out, p, env))
       IN Call([i \in 1..len |-> Pixel(Written + i)])
  /\ UNCHANGED <<bigEndian, fdmode, file, fpos, rfail, got, broken>>

Next ==
  \/ AttachInput
  \/ AttachOutput
  \/ AttachWritten
  \/ cupsRasterOpen
  \/ cupsRasterClose
  \/ cupsRasterReadHeader
  \/ cupsRasterReadHeader2
  \/ cupsRasterReadPixels
  \/ cupsRasterWriteHeader
  \/ cupsRasterWriteHeader2
  \/ cupsRasterWritePixels

Spec == Init /\ [][Next]_vars

-----------------------------------------------------------------------------
\* The properties

SixSyncs ==
  {CUPS_RASTER_SYNC, CUPS_RASTER_REVSYNC, CUPS_RASTER_SYNCv1, CUPS_RASTER_REVSYNCv1,
   CUPS_RASTER_SYNCv2, CUPS_RASTER_REVSYNCv2}

ReadCalls == {"ReadHeader", "ReadHeader2", "ReadPixels"}
WriteCalls == {"WriteHeader", "WriteHeader2", "WritePixels"}
HeaderCalls == {"ReadHeader", "ReadHeader2", "WriteHeader", "WriteHeader2"}

\* C1: cupsRasterOpen in read mode returns a stream iff the four bytes read
\* from the fd are one of the six sync words; compressed is then set iff the
\* word is SYNCv2 or REVSYNCv2 and swapped iff it is one of the three reversed
\* words; any other word, a short read and a failed read give NULL.
C1_OpenRead ==
  (last.op = "Open" /\ fdmode = "r") =>
    LET known == IF last.n = sizeof_unsigned THEN HostDigits(last.p) \in SixSyncs
                 ELSE FALSE
    IN /\ r.alive <=> known
       /\ last.io => ~r.alive
       /\ r.alive =>
            /\ r.sync = last.p
            /\ r.mode = CUPS_RASTER_READ
            /\ (r.compressed # 0) <=>
                 (HostDigits(last.p) \in {CUPS_RASTER_SYNCv2, CUPS_RASTER_REVSYNCv2})
            /\ (r.swapped # 0) <=>
                 (HostDigits(last.p) \in {CUPS_RASTER_REVSYNC, CUPS_RASTER_REVSYNCv1,
                                          CUPS_RASTER_REVSYNCv2})

\* a file of the other byte order, in the compressed format, was opened
C1_Witness ==
  /\ last.op = "Open" /\ fdmode = "r" /\ r.alive
  /\ HostDigits(last.p) = CUPS_RASTER_REVSYNCv2
  /\ r.compressed # 0 /\ r.swapped # 0

\* C2: after a header read or a header write that succeeded, remaining is
\* cupsHeight * cupsNumColors for the PLANAR order and cupsHeight for the
\* others, and bpp is the least count of bytes that holds cupsBitsPerPixel
\* bits (CHUNKED) or cupsBitsPerColor bits (the other orders); cupsNumColors
\* is the value the update left in the header.
C2_DerivedFields ==
  (last.op \in HeaderCalls /\ last.ret = <<0, 1>>) =>
    LET height == Field(r.header, "cupsHeight")
        colors == Field(r.header, "cupsNumColors")
        bits == IF Field(r.header, "cupsColorOrder") = CUPS_ORDER_CHUNKED
                THEN Field(r.header, "cupsBitsPerPixel")
                ELSE Field(r.header, "cupsBitsPerColor")
    IN /\ r.remaining = IF Field(r.header, "cupsColorOrder") = CUPS_ORDER_PLANAR
                        THEN height * colors ELSE height
       /\ 8 * r.bpp >= bits
       /\ 8 * (r.bpp - 1) < bits

\* a PLANAR page of six colours of one bit was announced
C2_Witness ==
  /\ last.op \in HeaderCalls /\ last.ret = <<0, 1>>
  /\ Field(r.header, "cupsColorOrder") = CUPS_ORDER_PLANAR
  /\ Field(r.header, "cupsNumColors") = 6
  /\ Field(r.header, "cupsBitsPerColor") = 1
  /\ Field(r.header, "cupsHeight") = 1
  /\ r.remaining = 6 /\ r.bpp = 1

\* the file that is read is one this library wrote
ReadBack == fdmode = "r" /\ given # <<>>

\* page i was read with the functions of the version it was written with, and
\* the pages before it were read to their last byte
Aligned(i) ==
  /\ i <= Len(given)
  /\ got[i].v = given[i].v
  /\ \A j \in 1..(i - 1) : got[j].data = given[j].data

\* the rows read of page i are the rows written
SameRows(i) ==
  Len(got[i].data) <= Len(given[i].data) => IsPrefix(got[i].data, given[i].data)

\* C3 as the specification states it: the header and the rows that are read
\* back are, bit for bit, the header and the rows the writer was given.
C3_RoundTripIdentical ==
  ReadBack =>
    \A i \in 1..Len(got) :
      Aligned(i) => got[i].hdr = given[i].hdr /\ SameRows(i)

\* C3: what is written uncompressed reads back with the same rows and the
\* same header but for cupsNumColors: a version-2 header given with
\* cupsNumColors = 0 reads back with the count the colour space stands for
\* (0 still for a colour space outside the mapping).
C3_RoundTripButNumColors ==
  ReadBack =>
    \A i \in 1..Len(got) :
      Aligned(i) =>
        /\ SameRows(i)
        /\ got[i].hdr = IF got[i].v = 1 THEN given[i].hdr
                        ELSE IF Field(given[i].hdr, "cupsNumColors") # 0
                        THEN given[i].hdr
                        ELSE SetNumColors(given[i].hdr)

\* a version-2 PLANAR page, given with no colour count, was read back to
\* its last row
C3_Witness ==
  /\ ReadBack /\ got # <<>>
  /\ Aligned(1) /\ got[1].v = 2
  /\ Field(given[1].hdr, "cupsColorOrder") = CUPS_ORDER_PLANAR
  /\ Field(given[1].hdr, "cupsNumColors") = 0
  /\ Field(got[1].hdr, "cupsNumColors") = 3
  /\ got[1].data = given[1].data /\ Len(got[1].data) = 3

\* the call that last'.op names is a misuse of the stream r
Misuse ==
  /\ r.alive
  /\ \/ last'.op \in ReadCalls /\ r.mode = CUPS_RASTER_WRITE
     \/ last'.op \in WriteCalls /\ r.mode = CUPS_RASTER_READ
     \/ last'.op \in {"ReadPixels", "WritePixels"} /\ r.remaining = 0

\* C4: a read call on a write stream, a write call on a read stream and a
\* pixel call made while remaining = 0 return 0, do no I/O on the fd and
\* leave every field of the stream as it was.
C4_MisuseUntouched ==
  [][Misuse => /\ last'.ret = <<0, 0>>
               /\ ~last'.touched /\ ~last'.io
               /\ fpos' = fpos /\ file' = file /\ out' = out
               /\ r' = r]_vars

\* pixels were asked of a write stream in the middle of its page
C4_Witness ==
  /\ last.op = "ReadPixels" /\ r.alive /\ r.mode = CUPS_RASTER_WRITE
  /\ r.remaining # 0 /\ last.len > 0
  /\ last.ret = <<0, 0>>

\* C5: once a read call on a read stream returned 0 because a sub-read
\* failed, every later read-header and read-pixels call on it returns 0.
C5_FailureTerminal ==
  [][(broken /\ r.alive /\ r.mode = CUPS_RASTER_READ /\ last'.op \in ReadCalls)
       => last'.ret = <<0, 0>>]_vars

\* C6: on an uncompressed read stream with remaining # 0, read-pixels
\* returns len iff all len bytes were read and 0 when the read fails, by end
\* of file or by a permanent error; remaining went down by
\* len / cupsBytesPerLine either way.
C6_UncompressedRead ==
  [][(/\ last'.op = "ReadPixels"
      /\ r.alive /\ r.mode = CUPS_RASTER_READ
      /\ r.compressed = 0 /\ r.remaining # 0)
       => /\ (last'.ret = ToUnsigned(last'.len)) <=> (last'.n = last'.len)
          /\ last'.io => last'.ret = <<0, 0>>
          /\ last'.ret \in {<<0, 0>>, ToUnsigned(last'.len)}
          /\ r'.remaining =
               r.remaining - (last'.len \div Field(r.header, "cupsBytesPerLine"))]_vars

\* C7: cupsRasterOpen in write mode returns a stream only if the four bytes
\* of the native sync word were written; a permanent write error gives NULL.
C7_OpenWrite ==
  (last.op = "Open" /\ fdmode = "w") =>
    /\ r.alive => out = HostBytes(CUPS_RASTER_SYNC)
    /\ last.io => ~r.alive

\* C8: on a write stream with remaining # 0, write-pixels returns len when
\* all bytes were written and 0 when the write fails; it returns nothing but
\* 0 and len.
C8_WritePixelsReturn ==
  [][(/\ last'.op = "WritePixels"
      /\ r.alive /\ r.mode = CUPS_RASTER_WRITE /\ r.remaining # 0)
       => /\ last'.ret \in {<<0, 0>>, ToUnsigned(last'.len)}
          /\ last'.io => last'.ret = <<0, 0>>
          /\ last'.n = last'.len => last'.ret = ToUnsigned(last'.len)]_vars

\* C9: remaining never goes below 0, whatever lengths are asked for.
C9_RemainingNonNegative == r.remaining >= 0

\* the bytes the page still owes: its rows left, less the part of the row in
\* the buffer that was handed out
Owed == r.remaining * Field(r.header, "cupsBytesPerLine") - r.pcurrent

\* C10: on a compressed stream with remaining # 0 none of whose sub-reads
\* failed, in this call or in one before, read-pixels returns len, stores
\* min(len, bytes the page still owes) bytes, and stops when len bytes are
\* served or remaining is 0.
C10_CompressedRead ==
  [][(/\ last'.op = "ReadPixels"
      /\ r.alive /\ r.mode = CUPS_RASTER_READ
      /\ r.compressed # 0 /\ r.remaining # 0
      /\ ~broken /\ ~last'.io)
       => /\ last'.ret = ToUnsigned(last'.len)
          /\ last'.n = Min(last'.len, Owed)
          /\ last'.n = last'.len \/ r'.remaining = 0]_vars

\* the page ran out before the bytes asked for were served
C10_Witness ==
  /\ last.op = "ReadPixels" /\ r.alive /\ r.compressed # 0
  /\ ~last.io /\ last.len > 0
  /\ last.n < last.len /\ last.n > 0
  /\ last.ret = ToUnsigned(last.len)
  /\ r.remaining = 0

\* the compressed input files, each with the rows its pages hold: rows[i]
\* is the concatenation of the rows of page i, every row as often as its
\* repeat count says and no more rows than the page has
CompressedFiles ==
  {[bytes |-> FileOf(CUPS_RASTER_SYNCv2, big, <<CPage1>>), rows |-> <<<<70, 70, 70, 70>>>>] :
     big \in BOOLEAN}
    \cup {[bytes |-> FileOf(CUPS_RASTER_SYNCv2, big, <<CPage2>>),
           rows |-> <<<<1, 2, 3, 4>>>>] : big \in BOOLEAN}
    \cup {[bytes |-> FileOf(CUPS_RASTER_SYNCv2, bigEndian, <<CPage4>>),
           rows |-> <<<<9, 9, 9>>>>]}

\* the rows of page i of the file that is read, if it is a compressed one
RowsOfFile(i) ==
  {c.rows[i] : c \in {c \in CompressedFiles : IsPrefix(file, c.bytes) /\ i <= Len(c.rows)}}

\* the call that last'.op names reads pixels of a compressed page
CompressedCall ==
  /\ last'.op = "ReadPixels"
  /\ r.alive /\ r.mode = CUPS_RASTER_READ
  /\ r.compressed # 0 /\ r.remaining # 0

\* the bytes the rows in replay still hold: the current row from pcurrent
\* and the row again for every further count the page has a row for
Replayable == Min(r.count, r.remaining) * r.pixlen - r.pcurrent

\* C11: a row whose repeat-count byte is n is delivered n + 1 times in a
\* row, however the requests are split; while count > 0 on entry the bytes
\* come from the row buffer between pcurrent and pend and no input is read,
\* and every crossing of pend takes one from count and from remaining and
\* sets pcurrent back to pixels.
C11_RowReplay ==
  [][/\ (CompressedCall /\ r.count > 0 /\ r.pixlen > 0 /\ last'.len <= Replayable)
          => /\ last'.ret = ToUnsigned(last'.len) /\ last'.n = last'.len
             /\ ~last'.touched /\ fpos' = fpos
             /\ r'.bufptr = r.bufptr /\ r'.bufend = r.bufend
             /\ r'.pixels = r.pixels
             /\ \A i \in 1..last'.n :
                  last'.p[i] = ReadAt(r.pixels, (r.pcurrent + i - 1) % r.pixlen, 1)[1]
             /\ r'.count = r.count - ((r.pcurrent + last'.n) \div r.pixlen)
             /\ r'.remaining = r.remaining - ((r.pcurrent + last'.n) \div r.pixlen)
             /\ r'.pcurrent = (r.pcurrent + last'.n) % r.pixlen
     /\ (last'.op = "ReadPixels" /\ r'.alive /\ r'.compressed # 0 /\ ~broken')
          => \A i \in 1..Len(got') : \A rows \in RowsOfFile(i)' :
               IsPrefix(got'[i].data, rows)]_vars

\* the row of CPage4, whose repeat count is 2, was delivered three times,
\* the last two times without a read
C11_Witness ==
  /\ last.op = "ReadPixels" /\ ~last.touched /\ last.n = 2
  /\ Len(got) = 1 /\ got[1].data = <<9, 9, 9>>
  /\ RowsOfFile(1) = {<<9, 9, 9>>}
  /\ r.remaining = 0 /\ r.count = 0

\* the bytes of the current page that were served since its header
Served == Len(got[Len(got)].data)

\* the row accounting of a compressed page on which no call failed
RowsAccounted ==
  (/\ fdmode = "r" /\ r.alive /\ r.compressed # 0 /\ ~broken
   /\ got # <<>> /\ Field(r.header, "cupsBytesPerLine") > 0)
    => /\ RowsOfPage(r.header) - r.remaining
            = Served \div Field(r.header, "cupsBytesPerLine")
       /\ r.remaining > 0 => r.pcurrent = Served % Field(r.header, "cupsBytesPerLine")
       /\ \A rows \in RowsOfFile(Len(got)) : Served <= Len(rows)
                                              /\ got[Len(got)].data = SubSeq(rows, 1, Served)

\* C12: on a compressed page a request shorter than the rest of the current
\* row copies that many bytes, consumes no row and is continued by the next
\* call; after successful calls that served T bytes since the header,
\* (rows of the page) - remaining = T div cupsBytesPerLine and the bytes
\* served are the first T bytes of the rows of the page, however T was split.
C12_RowAccounting ==
  [][/\ (/\ CompressedCall /\ ~broken /\ ~last'.io
         /\ last'.len < Field(r.header, "cupsBytesPerLine") - r.pcurrent)
          => /\ last'.n = last'.len
             /\ r'.remaining = r.remaining
             /\ r'.pcurrent = r.pcurrent + last'.len
     /\ last'.op = "ReadPixels" => RowsAccounted']_vars

\* the second row of CPage2 was served in two parts after the first row
C12_Witness ==
  /\ last.op = "ReadPixels" /\ last.len = 1 /\ last.n = 1 /\ ~broken
  /\ r.alive /\ r.compressed # 0
  /\ Len(got) = 1 /\ got[1].data = <<1, 2, 3, 4>>
  /\ RowsOfFile(1) = {<<1, 2, 3, 4>>}
  /\ r.remaining = 0 /\ r.pcurrent = 0

\* a sequence with the bytes of every pair 2i, 2i + 1 exchanged
PairSwap(row) ==
  [i \in 1..Len(row) |->
     IF i % 2 = 1 THEN (IF i < Len(row) THEN row[i + 1] ELSE row[i]) ELSE row[i - 1]]

\* the compressed files of two-byte pels, with the rows their pages decode to
WideFiles ==
  {[bytes |-> FileOf(CUPS_RASTER_SYNCv2, big, <<CPage3>>), rows |-> <<<<10, 11>>>>] :
     big \in BOOLEAN}

\* the rows page i decodes to, if the file read is one of WideFiles
DecodedRowsOfFile(i) ==
  {c.rows[i] : c \in {c \in WideFiles : IsPrefix(file, c.bytes) /\ i <= Len(c.rows)}}

\* C13: on a compressed stream of the other byte order whose header has
\* cupsBitsPerColor = 16 or cupsBitsPerPixel 12 or 16, every row delivered is
\* the decoded row with bytes 2i and 2i + 1 exchanged over the whole row.
C13_CompressedRowsSwapped ==
  (/\ last.op = "ReadPixels" /\ r.alive
   /\ r.compressed # 0 /\ r.swapped # 0 /\ ~broken /\ got # <<>>
   /\ \/ Field(r.header, "cupsBitsPerColor") = 16
      \/ Field(r.header, "cupsBitsPerPixel") = 12
      \/ Field(r.header, "cupsBitsPerPixel") = 16)
    => \A rows \in DecodedRowsOfFile(Len(got)) :
         IsPrefix(got[Len(got)].data, PairSwap(rows))

\* the bytes of the header that was read last, as they are in the file: the
\* cups_page_header_t behind a version-1 sync word
WireLen ==
  IF SyncOf(r) = CUPS_RASTER_SYNCv1 \/ SyncOf(r) = CUPS_RASTER_REVSYNCv1
  THEN sizeof_cups_page_header_t ELSE sizeof_cups_page_header2_t
WireHeader == SubSeq(file, fpos - WireLen + 1, fpos)

\* byte i of a header whose words from AdvanceDistance on have their four
\* bytes in the reverse order of the wire's
Reversed(wire, i) ==
  LET first == offsetof("AdvanceDistance")
      w == (i - first - 1) \div sizeof_unsigned
      k == (i - first - 1) % sizeof_unsigned
  IN IF i > first /\ i <= first + sizeof_unsigned * Len(header_words)
     THEN wire[first + sizeof_unsigned * w + (sizeof_unsigned - k)]
     ELSE wire[i]

\* C14: on a stream of the other byte order a header read that succeeds
\* leaves every word from AdvanceDistance on with the bytes of the wire word
\* in reverse order, on a little-endian and on a big-endian host, and every
\* other byte as it was read.  (The word cupsNumColors, which the update
\* behind the read may set, is left out of the comparison.)
C14_HeaderWordsReversed ==
  (/\ last.op \in {"ReadHeader", "ReadHeader2"} /\ last.ret = <<0, 1>>
   /\ r.alive /\ r.swapped # 0
   /\ (IF r.compressed = 0 THEN TRUE ELSE Len(got) = 1))
    => \A i \in 1..WireLen :
         (i <= offsetof("cupsNumColors") \/ i > offsetof("cupsNumColors") + sizeof_unsigned)
           => r.header[i] = Reversed(WireHeader, i)

\* a row of a compressed page was decoded and no call on the stream failed
RowDecoded ==
  /\ last.op = "ReadPixels" /\ r.alive /\ r.compressed # 0 /\ ~broken
  /\ r.decoded # <<>>
  /\ r.bpp >= 1 /\ Field(r.header, "cupsBytesPerLine") >= 1

\* C15 as the specification states it: when the decoder stops reading the
\* opcodes of a row, exactly cupsBytesPerLine bytes were produced for it,
\* whatever cupsBytesPerLine and bpp >= 1 are.
C15_FramingExact == RowDecoded => r.residue = 0 /\ r.overrun = 0

\* C15: when the decoder stops reading the opcodes of a row whose
\* cupsBytesPerLine is a multiple of bpp, exactly cupsBytesPerLine bytes
\* were produced for it; in a row of any other length fewer than bpp bytes
\* are missing.
C15_FramingOfWholePels ==
  RowDecoded =>
    /\ r.residue >= 0 /\ r.residue < r.bpp
    /\ Field(r.header, "cupsBytesPerLine") % r.bpp = 0 => r.residue = 0 /\ r.overrun = 0

\* the second row of CPage2 was decoded from two repeat opcodes
C15_Witness ==
  /\ RowDecoded /\ r.decoded = <<3, 4>> /\ r.residue = 0
  /\ got # <<>> /\ got[1].data = <<1, 2, 3>>

\* the opcodes of literal runs
LiteralOpcodes == 128..255

\* a compressed page was announced whose pels have bpp >= 1 bytes
PelsKnown ==
  /\ r.alive /\ r.mode = CUPS_RASTER_READ /\ r.compressed # 0
  /\ got # <<>> /\ r.bpp >= 1

\* C16 as the specification states it: a literal opcode b copies
\* (257 - b) * bpp bytes before the clamp, between 1 * bpp and 128 * bpp.
C16_LiteralOneTo128 ==
  PelsKnown =>
    \A b \in LiteralOpcodes :
      /\ LiteralCount(b, r.bpp) = (257 - b) * r.bpp
      /\ LiteralCount(b, r.bpp) >= 1 * r.bpp
      /\ LiteralCount(b, r.bpp) <= 128 * r.bpp

\* C16: a literal opcode b of 128..255 copies (257 - b) * bpp bytes before
\* the clamp: from 2 * bpp bytes (b = 255) to 129 * bpp bytes (b = 128); the
\* literal opcode 255 of CPage2 stands for the two pels of its first row.
C16_LiteralTwoTo129 ==
  PelsKnown =>
    /\ \A b \in LiteralOpcodes :
         /\ LiteralCount(b, r.bpp) = (257 - b) * r.bpp
         /\ LiteralCount(b, r.bpp) >= 2 * r.bpp
         /\ LiteralCount(b, r.bpp) <= 129 * r.bpp
    /\ LiteralCount(255, r.bpp) = 2 * r.bpp
    /\ LiteralCount(128, r.bpp) = 129 * r.bpp
    /\ (~broken /\ last.op = "ReadPixels" /\ RowsOfFile(1) = {<<1, 2, 3, 4>>}
        /\ Len(got[1].data) = 2)
         => r.decoded = <<1, 2>> /\ r.bufptr = 4

\* the first row of CPage2, the literal run of opcode 255, was read
C16_Witness ==
  /\ PelsKnown /\ ~broken /\ last.op = "ReadPixels"
  /\ RowsOfFile(1) = {<<1, 2, 3, 4>>}
  /\ got[1].data = <<1, 2>> /\ r.decoded = <<1, 2>> /\ r.bufptr = 4

\* C17: while a row is decoded the bytes stored for an opcode never exceed
\* the rest of the row, so no byte is stored behind the end of the
\* cupsBytesPerLine bytes of the destination, for every row length and
\* bpp >= 1.
C17_NoStoreBehindRow ==
  (r.alive /\ r.mode = CUPS_RASTER_READ /\ r.compressed # 0 /\ r.bpp >= 1)
    => r.overrun = 0

\* C18: when a repeat opcode finds fewer than bpp bytes left in the row and
\* the opcode loop is given up, the bytes of the delivered row that were not
\* produced are zero, in every row of the page, decoded into the row buffer
\* or into the caller's buffer.
C18_ResidueZero ==
  (RowDecoded /\ r.residue > 0)
    => \A i \in 1..Len(r.decoded) :
         i > Len(r.decoded) - r.residue => r.decoded[i] = 0


\* the cursors of the read buffer of a stream are in order
CursorsInOrder(s) ==
  0 <= s.bufptr /\ s.bufptr <= s.bufend /\ s.bufend <= s.bufsize

\* C19: on a compressed read stream buffer <= bufptr <= bufend <= buffer +
\* bufsize holds after every call, whether the call grew the buffer to
\* 2 * cupsBytesPerLine, refilled it, read around it or copied out of it, and
\* bufsize never decreases while the stream is open.
C19_BufferCursors ==
  [][/\ (r'.alive /\ r'.mode = CUPS_RASTER_READ /\ r'.compressed # 0)
          => CursorsInOrder(r')
     /\ (r.alive /\ r'.alive) => r'.bufsize >= r.bufsize]_vars

\* a buffer that was refilled and consumed, and then grown for a wider page
C19_Witness ==
  /\ r.alive /\ r.mode = CUPS_RASTER_READ /\ r.compressed # 0
  /\ last.op = "ReadPixels"
  /\ r.bufsize = 2 * Field(r.header, "cupsBytesPerLine")
  /\ 0 < r.bufptr /\ r.bufptr <= r.bufend /\ r.bufend < r.bufsize


\* what the OS may do during one cups_read at pos: interrupt it up to
\* MaxEintr times, deliver 1, 2 or all the bytes asked for, end the file or
\* fail for good within MaxAhead + 1 bytes
ReadOutcomes(pos) ==
  {[eintr |-> e, chunk |-> c, eof |-> f, err |-> x] :
     e \in 0..MaxEintr, c \in {1, 2, 64},
     f \in {-1} \cup pos..(pos + MaxAhead + 1),
     x \in {-1} \cup pos..(pos + MaxAhead + 1)}

\* where the file ends under env, and where read(2) fails for good at or
\* after pos (beyond the end of the file if nowhere)
EndOf(env) == IF env.eof = -1 THEN Len(file) ELSE Min(env.eof, Len(file))
BadFrom(pos, env) == IF env.err >= pos THEN env.err ELSE Len(file) + 1

\* C20: cups_read(fd, buf, len) returns len if and only if len bytes arrived, 0
\* if and only if read(2) reported the end of the file before that (also after
\* some bytes arrived), and -1 if and only if read(2) failed for good before
\* that; a read(2) interrupted (EINTR) is called again and moves neither the
\* byte total nor the place in the buffer.  The reads are those that can follow
\* the opening of a stream, at the place the file is at then.
C20_ReadReturns ==
  (fdmode = "r" /\ last.op = "Open" /\ fpos <= Len(file)) =>
    \A len \in 1..MaxLen, env \in ReadOutcomes(fpos) :
      LET Holds(res, quiet, end, bad, arrived) ==
            /\ res.ret \in {0, len, -1}
            /\ (res.ret = len) <=> (arrived = len)
            /\ (res.ret = 0) <=> (arrived < len /\ end < bad)
            /\ (res.ret = -1) <=> (arrived < len /\ bad <= end)
            /\ res.pos = fpos + arrived
            /\ res.data = SubSeq(file, fpos + 1, fpos + arrived)
            /\ res.ret = quiet.ret /\ res.pos = quiet.pos /\ res.data = quiet.data
            /\ res.calls = quiet.calls + env.eintr
          Within(end, bad) ==
            Holds(cups_read(fpos, len, env),
                  cups_read(fpos, len, [env EXCEPT !.eintr = 0]),
                  end, bad, Min(Min(fpos + len, end), bad) - fpos)
      IN Within(EndOf(env), BadFrom(fpos, env))

\* a stream was opened on a file that ended after three of the four bytes of
\* the sync word, the first read(2) having been interrupted
C20_Witness ==
  /\ fdmode = "r" /\ last.op = "Open" /\ last.ret = <<0, 0>> /\ last.io
  /\ fpos = 3 /\ Len(file) = 3
  /\ \E env \in QuietRead :
       /\ env.eintr > 0
       /\ cups_read(0, sizeof_unsigned, env).ret = 0
       /\ cups_read(0, sizeof_unsigned, env).pos = fpos


\* C21: on a compressed stream the bytes that the calls of cups_raster_read
\* which did not fail have handed out, one after the other, are the bytes the
\* fd delivered after the sync word, none skipped, repeated or out of
\* order, and every such call handed out as many bytes as it was asked for:
\* whatever the sizes of the calls, and whether they grew the buffer, filled
\* it again, read around it or crossed from the rows of a page to a header.
C21_ReaderTransparent ==
  (r.alive /\ r.mode = CUPS_RASTER_READ)
    => /\ Len(r.handed) = r.asked
       /\ sizeof_unsigned + r.asked <= Len(file)
       /\ r.handed = SubSeq(file, sizeof_unsigned + 1, sizeof_unsigned + r.asked)

\* the row of a second compressed page was read: headers were read around
\* the buffer, which was grown, filled more than once and copied from
C21_Witness ==
  /\ r.alive /\ r.mode = CUPS_RASTER_READ /\ r.compressed # 0
  /\ last.op = "ReadPixels" /\ last.ret = ToUnsigned(last.len) /\ last.len > 0
  /\ Len(got) = 2 /\ got[2].data # <<>>
  /\ r.bufsize > 0 /\ 0 < r.bufptr
  /\ r.asked > 2 * sizeof_cups_page_header_t


\* the compressed input files that hold whole pages and nothing else: every
\* row framed as 4.3 says, the file ending with the last row of a page
WellFormedFiles == {FileOf(CUPS_RASTER_SYNCv2, bigEndian, <<CPage8, CPage9>>)}

\* C22: on a well-formed compressed stream that ends at a page boundary, with
\* no fault of the OS, every read-pixels call for rows of the page returns
\* len, so that every row of every page is served: also the last rows, when
\* fewer than bufsize = 2 * cupsBytesPerLine bytes are left in the file and a
\* request below 16 bytes finds the buffer empty.
C22_WellFormedReadable ==
  [][(/\ last'.op = "ReadPixels"
      /\ r.alive /\ r.mode = CUPS_RASTER_READ
      /\ r.compressed # 0 /\ r.remaining # 0
      /\ file \in WellFormedFiles /\ failed = 0 /\ ~broken /\ rfail = -1
      /\ last'.len > 0)
       => last'.ret = ToUnsigned(last'.len)]_vars

====
